---- MODULE Spec2Model ----
(***************************************************************************)
(* Speak-Ease: the AI Gateway Client (services/geminiService.ts).          *)
(*                                                                         *)
(* One invocation of a Gateway operation is followed from the call to the  *)
(* point where its promise settles.  The synchronous prefix of an          *)
(* operation (input guard, client construction, the request) is one        *)
(* action; every continuation after an await is one action.  The external  *)
(* AI service, the client constructor and the FileReader are the           *)
(* environment: their outcomes are chosen nondeterministically.            *)
(*                                                                         *)
(* Strings the code inspects (trim, truthiness) are sequences of           *)
(* characters.  JavaScript values are tagged records.                      *)
(***************************************************************************)
EXTENDS Integers, Sequences, FiniteSets, TLC

(***************************************************************************)
(* Bounds of the model.                                                    *)
(***************************************************************************)
MaxLen ==
    3

MaxChunks ==
    3

MaxJsonLen ==
    5

(***************************************************************************)
(* Small input alphabets.                                                  *)
(***************************************************************************)
Chars ==
    {" ", "a", "b"}

Whitespace ==
    {" "}

BoundedSeq(S, n) ==
    UNION {[1..k -> S] : k \in 0..n}

Texts ==
    BoundedSeq(Chars, MaxLen)

LangNames ==
    {"English", "French"}

Coords ==
    {<<12, 56>>, <<0, 0>>}

(***************************************************************************)
(* The string literals of geminiService.ts.                                *)
(***************************************************************************)
EN_US ==
    <<"e", "n", "-", "U", "S">>

RECOGNITION_FAILED ==
    <<"R", "e", "c", "o", "g", "n", "i", "t", "i", "o", "n", " ", "f", "a",
      "i", "l", "e", "d", ".">>

ERROR_INTERPRETING ==
    <<"E", "r", "r", "o", "r", " ", "i", "n", "t", "e", "r", "p", "r", "e",
      "t", "i", "n", "g", " ", "s", "i", "g", "n", ".">>

NO_SERVICES ==
    <<"N", "o", " ", "e", "s", "s", "e", "n", "t", "i", "a", "l", " ", "s",
      "e", "r", "v", "i", "c", "e", "s", " ", "f", "o", "u", "n", "d", " ",
      "n", "e", "a", "r", "b", "y", ".">>

ERROR_FETCHING ==
    <<"E", "r", "r", "o", "r", " ", "f", "e", "t", "c", "h", "i", "n", "g",
      " ", "n", "e", "a", "r", "b", "y", " ", "p", "l", "a", "c", "e", "s",
      ".", " ", "P", "l", "e", "a", "s", "e", " ", "c", "h", "e", "c", "k",
      " ", "n", "e", "t", "w", "o", "r", "k", ".">>

(***************************************************************************)
(* JavaScript values.                                                      *)
(***************************************************************************)
Undefined ==
    [t |-> "undefined"]

Null ==
    [t |-> "null"]

Str(s) ==
    [t |-> "string", s |-> s]

Obj(fields) ==
    [t |-> "object", fields |-> fields]

Arr(items) ==
    [t |-> "array", items |-> items]

Exception ==
    [t |-> "exception"]

\* JavaScript truthiness of a value that is a string, an object, null or
\* undefined: only undefined, null and the empty string are falsy.
Truthy(v) ==
    /\ v.t \notin {"undefined", "null"}
    /\ v.t = "string" => v.s # <<>>

\* a || b
OrElse(a, b) ==
    IF Truthy(a) THEN a ELSE b

RECURSIVE TrimStart(_)
TrimStart(s) ==
    IF s # <<>> /\ Head(s) \in Whitespace THEN TrimStart(Tail(s)) ELSE s

RECURSIVE TrimEnd(_)
TrimEnd(s) ==
    IF s # <<>> /\ s[Len(s)] \in Whitespace
    THEN TrimEnd(SubSeq(s, 1, Len(s) - 1))
    ELSE s

\* String.prototype.trim
Trim(s) ==
    TrimEnd(TrimStart(s))

\* v?.trim() : undefined stays undefined
OptTrim(v) ==
    IF v.t = "string" THEN Str(Trim(v.s)) ELSE Undefined

(***************************************************************************)
(* The environment's answers.                                              *)
(***************************************************************************)
\* new GoogleGenAI({apiKey}) either yields a client or throws.
CtorOutcomes ==
    {"client", "throws"}

NoReply ==
    [kind |-> "none", text |-> Undefined, grounding |-> Undefined]

ErrorReply ==
    [kind |-> "error", text |-> Undefined, grounding |-> Undefined]

\* response.text of a free-text reply: absent, or any string.
OptTexts ==
    {Undefined} \cup {Str(s) : s \in Texts}

TextReplies ==
    {ErrorReply} \cup
    {[kind |-> "answer", text |-> x, grounding |-> Undefined] : x \in OptTexts}

\* A grounding chunk either carries a place reference in .maps or does not
\* (a chunk of another kind has no .maps member, or a null one).
PlaceRefs ==
    {[t |-> "place", id |-> "m1"], [t |-> "place", id |-> "m2"]}

Chunks ==
    {[maps |-> m] : m \in {Undefined, Null} \cup PlaceRefs}

\* response.candidates?.[0]?.groundingMetadata?.groundingChunks : absent
\* at any level, or an array of chunks.
Groundings ==
    {Undefined} \cup {Arr(c) : c \in BoundedSeq(Chunks, MaxChunks)}

PlacesReplies ==
    {ErrorReply} \cup
    {[kind |-> "answer", text |-> x, grounding |-> g] :
        x \in OptTexts, g \in Groundings}

\* A JSON text is a sequence of tokens: braces, the literal null, and
\* members.  A member token k stands for  "k": "<some string>"  with its
\* separators.
LanguageKeys ==
    {"code", "name", "nativeName"}

UIKeys ==
    {"home", "listen"}

JsonReplies(members) ==
    {ErrorReply} \cup
    {[kind |-> "answer", text |-> x, grounding |-> Undefined] :
        x \in {Undefined} \cup
              {Str(s) : s \in BoundedSeq({"{", "}", "null"} \cup members,
                                         MaxJsonLen)}}

\* the replies findLanguageDetails can receive
LanguageReplies ==
    JsonReplies(LanguageKeys)

\* the replies fetchUITranslations can receive
TranslationReplies ==
    JsonReplies(UIKeys)

LanguageQueries ==
    {"Icelandic", "Klingon"}

\* lists of distinct label keys
KeyLists ==
    {k \in BoundedSeq(UIKeys, Cardinality(UIKeys)) :
        \A i, j \in 1..Len(k) : i # j => k[i] # k[j]}

\* The image handed to interpretSignLanguage: a frame the FileReader can
\* read, or a blob whose read fails.
Blobs ==
    {"frame", "unreadable"}

(***************************************************************************)
(* State of one invocation.                                                *)
(***************************************************************************)
VARIABLES
    op,       \* the operation invoked, "none" before the call
    args,     \* its arguments
    pc,       \* "idle", "awaitBase64", "awaitResponse", "returned", "raised"
    reader,   \* FileReader of interpretSignLanguage: "none", "loading", "done"
    calls,    \* generateContent requests issued by this invocation
    reply,    \* what the external call produced
    result    \* the value the promise settled with

gatewayVars ==
    <<op, args, pc, reader, calls, reply, result>>

(***************************************************************************)
(* State of the Interaction Controller (the App component).                *)
(*                                                                         *)
(* A state variable holds the value of the last update.  React re-renders  *)
(* after an update, not within it: a handler, timer callback or            *)
(* continuation runs with the values its closure captured at the render    *)
(* that created it.  seen* are the values captured by the latest render;   *)
(* render brings them up to date and runs the effects whose dependencies   *)
(* changed.                                                                *)
(***************************************************************************)
VARIABLES
    recentPhrases,      \* useState<string[]>([]), most recent first
    seenRecentPhrases,  \* recentPhrases as captured by the latest render
    utterance           \* the text last handed to speechSynthesis.speak

speakVars ==
    <<recentPhrases, seenRecentPhrases, utterance>>

VARIABLES
    currentMode,        \* useState<Mode>('home')
    seenCurrentMode,    \* the mode of the latest render (the mounted view)
    transcript,         \* useState('')
    isSignLoading,      \* useState(false)
    seenIsSignLoading,  \* isSignLoading as captured by the latest render
    signHistory,        \* useState<string[]>([]), most recent first
    blobsPending,       \* canvas.toBlob callbacks not yet delivered
    interpretsPending,  \* interpretSignLanguage calls not yet settled
    captures,           \* captures started so far
    completions         \* every interpretation completed so far, in order

modeVars ==
    <<currentMode, seenCurrentMode>>

signVars ==
    <<transcript, isSignLoading, seenIsSignLoading, signHistory,
      blobsPending, interpretsPending, captures, completions>>

VARIABLES
    isLiveScanning,      \* useState(false)
    seenIsLiveScanning,  \* isLiveScanning as captured by the latest render
    liveScanTimer,       \* liveScanTimerRef holds a running interval
    timerIsSignLoading,  \* isSignLoading in the closure the interval calls
    intervals,           \* setInterval timers created and not yet cleared
    cameraRequest,       \* getUserMedia of the current camera effect pending
    stream,              \* `stream` of the current camera effect is assigned
    orphanRequests,      \* pending getUserMedia of effects already cleaned up
    liveTracks           \* granted streams whose tracks are not stopped

liveVars ==
    <<isLiveScanning, seenIsLiveScanning, liveScanTimer, timerIsSignLoading,
      intervals>>

cameraVars ==
    <<cameraRequest, stream, orphanRequests, liveTracks>>

VARIABLES
    isListening,        \* useState(false)
    isTranslating,      \* useState(false)
    recStarting,        \* recognitions started, onstart not yet delivered
    recListening,       \* recognitions listening, no result yet
    recResulted,        \* recognitions that gave their result, not yet ended
    translatesPending   \* translateText calls of onresult not yet settled

talkVars ==
    <<isListening, isTranslating, recStarting, recListening, recResulted,
      translatesPending>>

VARIABLES
    currentCoords,             \* useState<{lat, lng} | null>(null)
    seenCurrentCoords,         \* currentCoords of the latest render
    coordsFresh,               \* a new object was stored since then
    locationRequests,          \* getCurrentPosition calls not yet answered
    activeFilter,              \* useState('hospital')
    seenActiveFilter,          \* activeFilter as captured by the latest render
    nearbyResults,             \* the cached result of each category
    isNearbyLoading,           \* useState(false)
    seenIsNearbyLoading,       \* isNearbyLoading of the latest render
    searches,                  \* performSearch calls awaiting getNearbyPlaces
    show911Confirmation,       \* useState(false)
    seenShow911Confirmation,   \* whether the latest render shows the modal
    emergencyType,             \* 'call' | 'text' | null, here "null"
    seenEmergencyType,         \* emergencyType of the latest render
    intents                    \* the platform intents issued so far

locVars ==
    <<currentCoords, seenCurrentCoords, coordsFresh, locationRequests>>

nearbyVars ==
    <<activeFilter, seenActiveFilter, nearbyResults, isNearbyLoading,
      seenIsNearbyLoading, searches>>

sosVars ==
    <<show911Confirmation, seenShow911Confirmation, emergencyType,
      seenEmergencyType, intents>>

VARIABLES
    user,               \* useState<User | null>(saved profile or null)
    seenUser,           \* user as captured by the latest render
    storedUser,         \* localStorage item 'speakease-user'
    isAuthLoading,      \* useState(false)
    seenIsAuthLoading,  \* isAuthLoading as captured by the latest render
    loginTimers,        \* pending setTimeout callbacks of the login buttons
    emergencyContacts,  \* useState(user?.emergencyContacts || [...])
    alerts              \* the SMS intents opened with window.open so far

sessionVars ==
    <<user, seenUser, storedUser, isAuthLoading, seenIsAuthLoading,
      loginTimers, emergencyContacts, alerts>>

\* State of the language bar and of the label lookup (part_001).
VARIABLES
    lang,                 \* useState<AppLanguage>(TOP_LANGUAGES[0])
    seenLang,             \* lang as captured by the latest render
    langFresh,            \* lang was set to a new object since that render
    availableLanguages,   \* useState<AppLanguage[]>(SUPPORTED_LANGUAGES)
    seenAvailableLanguages,   \* the list as captured by the latest render
    dynamicTranslations,  \* useState<Record<string, string>>({})
    seenDynamicTranslations,  \* the mapping as captured by the latest render
    isTranslatingUI,      \* useState(false)
    uiFetches,            \* languages of the pending fetchUITranslations calls
    lookups               \* number of pending findLanguageDetails calls

langVars ==
    <<lang, seenLang, langFresh, availableLanguages, seenAvailableLanguages,
      dynamicTranslations, seenDynamicTranslations, isTranslatingUI,
      uiFetches, lookups>>

placeVars ==
    <<locVars, nearbyVars, sosVars, sessionVars, langVars>>

appVars ==
    <<speakVars, modeVars, signVars, liveVars, cameraVars, talkVars,
      placeVars>>

vars ==
    <<gatewayVars, appVars>>

\* an AppLanguage; nativeName is shown only and is left out
Language(code, name) ==
    [code |-> code, name |-> name]

\* constants.tsx lines 5-16
TOP_LANGUAGES ==
    <<Language("en-US", "English"), Language("hi-IN", "Hindi"),
      Language("es-ES", "Spanish"), Language("zh-CN", "Chinese"),
      Language("ar-SA", "Arabic"), Language("bn-IN", "Bengali"),
      Language("fr-FR", "French"), Language("ru-RU", "Russian"),
      Language("pt-PT", "Portuguese"), Language("ja-JP", "Japanese")>>

\* constants.tsx lines 19-28
EXTENDED_LANGUAGES ==
    <<Language("te-IN", "Telugu"), Language("mr-IN", "Marathi"),
      Language("ta-IN", "Tamil"), Language("de-DE", "German"),
      Language("it-IT", "Italian"), Language("ko-KR", "Korean"),
      Language("tr-TR", "Turkish"), Language("vi-VN", "Vietnamese")>>

\* [...TOP_LANGUAGES, ...EXTENDED_LANGUAGES]
SUPPORTED_LANGUAGES ==
    TOP_LANGUAGES \o EXTENDED_LANGUAGES

\* the language codes UI_TRANSLATIONS has a string table for
UI_TRANSLATIONS ==
    {"en-US", "hi-IN", "es-ES"}

NoArgs ==
    [text |-> <<>>, targetLang |-> "English", coords |-> <<0, 0>>,
     blob |-> "none", keys |-> <<>>]

InitFlows ==
    /\ op = "none"
    /\ args = NoArgs
    /\ pc = "idle"
    /\ reader = "none"
    /\ calls = 0
    /\ reply = NoReply
    /\ result = Undefined
    /\ recentPhrases = <<>>
    /\ seenRecentPhrases = <<>>
    /\ utterance = <<>>
    /\ currentMode = "home"
    /\ seenCurrentMode = "home"
    /\ transcript = <<>>
    /\ isSignLoading = FALSE
    /\ seenIsSignLoading = FALSE
    /\ signHistory = <<>>
    /\ blobsPending = 0
    /\ interpretsPending = 0
    /\ captures = 0
    /\ completions = <<>>
    /\ isLiveScanning = FALSE
    /\ seenIsLiveScanning = FALSE
    /\ liveScanTimer = FALSE
    /\ timerIsSignLoading = FALSE
    /\ intervals = 0
    /\ cameraRequest = FALSE
    /\ stream = FALSE
    /\ orphanRequests = 0
    /\ liveTracks = 0
    /\ isListening = FALSE
    /\ isTranslating = FALSE
    /\ recStarting = 0
    /\ recListening = 0
    /\ recResulted = 0
    /\ translatesPending = 0
    /\ currentCoords = Null
    /\ seenCurrentCoords = Null
    /\ coordsFresh = FALSE
    /\ locationRequests = 0
    /\ activeFilter = "hospital"
    /\ seenActiveFilter = "hospital"
    /\ nearbyResults = [c \in {"hospital", "police", "pharmacy"} |->
                          [t |-> "places", text |-> Str(<<>>), links |-> <<>>]]
    /\ isNearbyLoading = FALSE
    /\ seenIsNearbyLoading = FALSE
    /\ searches = <<>>
    /\ show911Confirmation = FALSE
    /\ seenShow911Confirmation = FALSE
    /\ emergencyType = "null"
    /\ seenEmergencyType = "null"
    /\ intents = <<>>
    /\ lang = TOP_LANGUAGES[1]
    /\ seenLang = TOP_LANGUAGES[1]
    /\ langFresh = FALSE
    /\ availableLanguages = SUPPORTED_LANGUAGES
    /\ seenAvailableLanguages = SUPPORTED_LANGUAGES
    /\ dynamicTranslations = Obj({})
    /\ seenDynamicTranslations = Obj({})
    /\ isTranslatingUI = FALSE
    /\ uiFetches = <<>>
    /\ lookups = 0

\* JSON.stringify of a profile and JSON.parse of the stored text; a profile
\* holds strings and arrays of string records, which both keep
Json(profile) ==
    [t |-> "json", of |-> profile]

JsonOf(item) ==
    IF item = Null THEN Null ELSE item.of

\* the mock profile of loginWithGoogle (lines 180-185)
GoogleUser ==
    [id |-> "g-1", name |-> "Alex Rivera", authMethod |-> "google",
     emergencyContacts |-> <<[name |-> "Emergency Family", phone |-> "911"]>>]

\* the profile of loginAsGuest (line 196), created at time now
GuestUser(now) ==
    [id |-> <<"guest-", now>>, name |-> "Guest User", authMethod |-> "guest"]

\* user?.emergencyContacts || [{ name: 'Family Alert', phone: '911' }]
ContactsOf(u) ==
    IF u # Null /\ "emergencyContacts" \in DOMAIN u
    THEN u.emergencyContacts
    ELSE <<[name |-> "Family Alert", phone |-> "911"]>>

\* what localStorage may hold when the component mounts: nothing, or a
\* profile stored by an earlier session
SavedItems ==
    {Null, Json(GoogleUser), Json(GuestUser(1)),
     Json([id |-> "g-2", name |-> "Sam", authMethod |-> "google",
           emergencyContacts |-> <<[name |-> "A", phone |-> "111"],
                                   [name |-> "B", phone |-> "222"]>>]),
     Json([id |-> "g-3", name |-> "Kim", authMethod |-> "google",
           emergencyContacts |-> <<>>])}

\* the state initializers of lines 65-72 and 110-112
Mounted(saved) ==
    /\ storedUser = saved
    /\ user = JsonOf(saved)
    /\ seenUser = JsonOf(saved)
    /\ emergencyContacts = ContactsOf(JsonOf(saved))
    /\ isAuthLoading = FALSE
    /\ seenIsAuthLoading = FALSE
    /\ loginTimers = <<>>
    /\ alerts = <<>>

\* the flows start with a returning guest logged in
Init ==
    /\ InitFlows
    /\ Mounted(Json(GuestUser(1)))

InitSession ==
    /\ InitFlows
    /\ \E saved \in SavedItems : Mounted(saved)

\* return v  (the async function's promise resolves with v)
Return(v) ==
    /\ pc' = "returned"
    /\ result' = v

\* an exception leaves the async function (its promise rejects)
Raise ==
    /\ pc' = "raised"
    /\ result' = Exception

\* await ai.models.generateContent(...) : one request goes out
Request ==
    /\ pc' = "awaitResponse"
    /\ calls' = calls + 1
    /\ UNCHANGED result

(***************************************************************************)
(* detectLanguage                                                          *)
(***************************************************************************)
\* if (!text) return "en-US";
detectLanguageGuard(text) ==
    ~Truthy(Str(text))

\* the reply returned without .trim()
detectLanguageReturnUntrimmed(r) ==
    IF r.kind = "error"
    THEN Str(EN_US)
    ELSE OrElse(r.text, Str(EN_US))

\* return response.text?.trim() || "en-US";   catch: return "en-US";
detectLanguageReturn(r) ==
    IF r.kind = "error"
    THEN Str(EN_US)
    ELSE OrElse(OptTrim(r.text), Str(EN_US))

detectLanguage ==
    /\ pc = "idle"
    /\ \E text \in Texts, ctor \in CtorOutcomes :
          /\ op' = "detectLanguage"
          /\ args' = [NoArgs EXCEPT !.text = text]
          /\ IF detectLanguageGuard(text)
             THEN Return(Str(EN_US)) /\ UNCHANGED calls
             ELSE IF ctor = "throws"
                  THEN Raise /\ UNCHANGED calls
                  ELSE Request
    /\ UNCHANGED <<reader, reply>>
    /\ UNCHANGED appVars

detectLanguageResume ==
    /\ pc = "awaitResponse"
    /\ op = "detectLanguage"
    /\ \E r \in TextReplies :
          /\ reply' = r
          /\ Return(detectLanguageReturn(r))
    /\ UNCHANGED <<op, args, reader, calls>>
    /\ UNCHANGED appVars

(***************************************************************************)
(* translateText                                                           *)
(***************************************************************************)
\* the empty-text guard left out
translateTextGuardAbsent(text) ==
    FALSE

\* if (!text) return "";
translateTextGuard(text) ==
    ~Truthy(Str(text))

\* the catch block returning "" instead of the text
translateTextReturnDropsText(r, text) ==
    IF r.kind = "error"
    THEN Str(<<>>)
    ELSE OrElse(OptTrim(r.text), Str(<<>>))

\* return response.text?.trim() || text;   catch: return text;
translateTextReturn(r, text) ==
    IF r.kind = "error"
    THEN Str(text)
    ELSE OrElse(OptTrim(r.text), Str(text))

translateText ==
    /\ pc = "idle"
    /\ \E text \in Texts, targetLang \in LangNames, ctor \in CtorOutcomes :
          /\ op' = "translateText"
          /\ args' = [NoArgs EXCEPT !.text = text, !.targetLang = targetLang]
          /\ IF translateTextGuard(text)
             THEN Return(Str(<<>>)) /\ UNCHANGED calls
             ELSE IF ctor = "throws"
                  THEN Raise /\ UNCHANGED calls
                  ELSE Request
    /\ UNCHANGED <<reader, reply>>
    /\ UNCHANGED appVars

\* a failed request sent once more before the fallback is returned
translateTextResumeRetries ==
    /\ pc = "awaitResponse"
    /\ op = "translateText"
    /\ \E r \in TextReplies :
          /\ reply' = r
          /\ IF r.kind = "error" /\ calls < 2
             THEN Request
             ELSE Return(translateTextReturn(r, args.text)) /\ UNCHANGED calls
    /\ UNCHANGED <<op, args, reader>>
    /\ UNCHANGED appVars

translateTextResume ==
    /\ pc = "awaitResponse"
    /\ op = "translateText"
    /\ \E r \in TextReplies :
          /\ reply' = r
          /\ Return(translateTextReturn(r, args.text))
    /\ UNCHANGED <<op, args, reader, calls>>
    /\ UNCHANGED appVars

(***************************************************************************)
(* getNearbyPlaces                                                         *)
(***************************************************************************)
\* chunks.map((chunk: any) => chunk.maps)
MapMaps(chunks) ==
    [i \in 1..Len(chunks) |-> chunks[i].maps]

\* the filter left out
FilterBooleanAbsent(s) ==
    s

\* .filter(Boolean)
FilterBoolean(s) ==
    SelectSeq(s, Truthy)

\* response.candidates?.[0]?.groundingMetadata?.groundingChunks || []
GroundingChunks(g) ==
    IF g.t = "array" THEN g.items ELSE <<>>

Places(text, links) ==
    [t |-> "places", text |-> text, links |-> links]

\* the catch block answering with the "nothing found" summary
getNearbyPlacesReturnWrongSummary(r) ==
    IF r.kind = "error"
    THEN Places(Str(NO_SERVICES), <<>>)
    ELSE Places(OrElse(r.text, Str(NO_SERVICES)),
                SelectSeq([i \in 1..Len(GroundingChunks(r.grounding)) |->
                              GroundingChunks(r.grounding)[i].maps], Truthy))

\* lines 58-66, and the catch of lines 67-70
getNearbyPlacesReturn(r) ==
    IF r.kind = "error"
    THEN Places(Str(ERROR_FETCHING), <<>>)
    ELSE Places(OrElse(r.text, Str(NO_SERVICES)),
                FilterBoolean(MapMaps(GroundingChunks(r.grounding))))

getNearbyPlaces ==
    /\ pc = "idle"
    /\ \E c \in Coords, targetLang \in LangNames, ctor \in CtorOutcomes :
          /\ op' = "getNearbyPlaces"
          /\ args' = [NoArgs EXCEPT !.coords = c, !.targetLang = targetLang]
          /\ IF ctor = "throws"
             THEN Raise /\ UNCHANGED calls
             ELSE Request
    /\ UNCHANGED <<reader, reply>>
    /\ UNCHANGED appVars

getNearbyPlacesResume ==
    /\ pc = "awaitResponse"
    /\ op = "getNearbyPlaces"
    /\ \E r \in PlacesReplies :
          /\ reply' = r
          /\ Return(getNearbyPlacesReturn(r))
    /\ UNCHANGED <<op, args, reader, calls>>
    /\ UNCHANGED appVars

(***************************************************************************)
(* findLanguageDetails                                                     *)
(***************************************************************************)
SyntaxError ==
    [ok |-> FALSE, v |-> Undefined]

Parsed(v) ==
    [ok |-> TRUE, v |-> v]

\* JSON.parse on a token sequence: the literal null, or an object whose
\* members sit between one pair of braces (a repeated member keeps one
\* entry); anything else is a SyntaxError.  Other JSON values (numbers,
\* strings, arrays) are not among the tokens.
JsonParse(s) ==
    IF s = <<"null">>
    THEN Parsed(Null)
    ELSE IF /\ Len(s) >= 2
            /\ s[1] = "{"
            /\ s[Len(s)] = "}"
            /\ \A i \in 2..(Len(s) - 1) : s[i] \notin {"{", "}", "null"}
         THEN Parsed(Obj({s[i] : i \in 2..(Len(s) - 1)}))
         ELSE SyntaxError

\* return JSON.parse(response.text || "null");   catch: return null;
findLanguageDetailsReturn(r) ==
    IF r.kind = "error"
    THEN Null
    ELSE LET p == JsonParse(OrElse(r.text, Str(<<"null">>)).s)
         IN  IF p.ok THEN p.v ELSE Null

findLanguageDetails ==
    /\ pc = "idle"
    /\ \E langName \in LanguageQueries, ctor \in CtorOutcomes :
          /\ op' = "findLanguageDetails"
          /\ args' = [NoArgs EXCEPT !.targetLang = langName]
          /\ IF ctor = "throws"
             THEN Raise /\ UNCHANGED calls
             ELSE Request
    /\ UNCHANGED <<reader, reply>>
    /\ UNCHANGED appVars

findLanguageDetailsResume ==
    /\ pc = "awaitResponse"
    /\ op = "findLanguageDetails"
    /\ \E r \in LanguageReplies :
          /\ reply' = r
          /\ Return(findLanguageDetailsReturn(r))
    /\ UNCHANGED <<op, args, reader, calls>>
    /\ UNCHANGED appVars

(***************************************************************************)
(* interpretSignLanguage                                                   *)
(***************************************************************************)
\* reader.result when loadend fires: the data URL of the blob, or null
\* after a failed read.
ReaderResult(blob) ==
    IF blob = "frame"
    THEN Str(<<"data:image/jpeg;base64", ",", "/9j/4AAQ">>)
    ELSE Null

\* the two failure strings exchanged
interpretSignLanguageReturnSwapped(r) ==
    IF r.kind = "error"
    THEN Str(RECOGNITION_FAILED)
    ELSE OrElse(OptTrim(r.text), Str(ERROR_INTERPRETING))

\* return response.text?.trim() || "Recognition failed.";
\* catch: return "Error interpreting sign.";
interpretSignLanguageReturn(r) ==
    IF r.kind = "error"
    THEN Str(ERROR_INTERPRETING)
    ELSE OrElse(OptTrim(r.text), Str(RECOGNITION_FAILED))

\* lines 105-115: the client, the reader, the promise, readAsDataURL, and
\* the await of the promise that only onloadend resolves
interpretSignLanguage ==
    /\ pc = "idle"
    /\ \E blob \in Blobs, targetLang \in LangNames, ctor \in CtorOutcomes :
          /\ op' = "interpretSignLanguage"
          /\ args' = [NoArgs EXCEPT !.blob = blob, !.targetLang = targetLang]
          /\ IF ctor = "throws"
             THEN Raise /\ UNCHANGED <<calls, reader>>
             ELSE /\ reader' = "loading"
                  /\ pc' = "awaitBase64"
                  /\ UNCHANGED <<calls, result>>
    /\ UNCHANGED reply
    /\ UNCHANGED appVars

\* reader.onloadend (lines 109-112) and, when it resolves the promise, the
\* continuation of line 115 up to the request of line 117.  On a null
\* reader.result the .split throws inside the event handler, outside the
\* async function: resolve is never reached and nothing is caught.
onloadend ==
    /\ pc = "awaitBase64"
    /\ reader = "loading"
    /\ reader' = "done"
    /\ IF ReaderResult(args.blob).t = "string"
       THEN Request
       ELSE UNCHANGED <<pc, calls, result>>
    /\ UNCHANGED <<op, args, reply>>
    /\ UNCHANGED appVars

interpretSignLanguageResume ==
    /\ pc = "awaitResponse"
    /\ op = "interpretSignLanguage"
    /\ \E r \in TextReplies :
          /\ reply' = r
          /\ Return(interpretSignLanguageReturn(r))
    /\ UNCHANGED <<op, args, reader, calls>>
    /\ UNCHANGED appVars

(***************************************************************************)
(* fetchUITranslations  (its source is not in the repository snapshot; it  *)
(* is modelled from its contract: a fresh client, one schema-constrained   *)
(* request keyed by the supplied keys, an empty mapping on failure or on   *)
(* a malformed reply).                                                     *)
(***************************************************************************)
KeySet(keys) ==
    {keys[i] : i \in 1..Len(keys)}

\* the parsed reply returned without comparing its keys
fetchUITranslationsReturnUnchecked(r, keys) ==
    IF r.kind = "error"
    THEN Obj({})
    ELSE LET p == JsonParse(OrElse(r.text, Str(<<"{", "}">>)).s)
         IN  IF p.ok THEN p.v ELSE Obj({})

fetchUITranslationsReturn(r, keys) ==
    IF r.kind = "error"
    THEN Obj({})
    ELSE LET p == JsonParse(OrElse(r.text, Str(<<"{", "}">>)).s)
         IN  IF p.ok /\ p.v.t = "object" /\ p.v.fields = KeySet(keys)
             THEN p.v
             ELSE Obj({})

fetchUITranslations ==
    /\ pc = "idle"
    /\ \E targetLang \in LangNames, keys \in KeyLists, ctor \in CtorOutcomes :
          /\ op' = "fetchUITranslations"
          /\ args' = [NoArgs EXCEPT !.keys = keys, !.targetLang = targetLang]
          /\ IF ctor = "throws"
             THEN Raise /\ UNCHANGED calls
             ELSE Request
    /\ UNCHANGED <<reader, reply>>
    /\ UNCHANGED appVars

fetchUITranslationsResume ==
    /\ pc = "awaitResponse"
    /\ op = "fetchUITranslations"
    /\ \E r \in TranslationReplies :
          /\ reply' = r
          /\ Return(fetchUITranslationsReturn(r, args.keys))
    /\ UNCHANGED <<op, args, reader, calls>>
    /\ UNCHANGED appVars

Next ==
    \/ detectLanguage
    \/ detectLanguageResume
    \/ translateText
    \/ translateTextResume
    \/ getNearbyPlaces
    \/ getNearbyPlacesResume
    \/ findLanguageDetails
    \/ findLanguageDetailsResume
    \/ interpretSignLanguage
    \/ onloadend
    \/ interpretSignLanguageResume
    \/ fetchUITranslations
    \/ fetchUITranslationsResume

Spec ==
    Init /\ [][Next]_vars

\* A completion that is due: the FileReader's loadend, or the settling of
\* the outstanding generateContent request.
Completion ==
    \/ onloadend
    \/ detectLanguageResume
    \/ translateTextResume
    \/ getNearbyPlacesResume
    \/ findLanguageDetailsResume
    \/ interpretSignLanguageResume
    \/ fetchUITranslationsResume

\* The event loop delivers every completion that is due.
Fairness ==
    WF_vars(Completion)

FairSpec ==
    Spec /\ Fairness

(***************************************************************************)
(* Speak flow (App.tsx).                                                   *)
(***************************************************************************)
\* .slice(0, 5) of the recent-phrases list and of the sign history
MaxRecent ==
    5

\* The texts handed to speak: the typed input (possibly empty) and the
\* phrase tiles.
SpokenTexts ==
    {<<>>, <<"a">>, <<"b">>}

\* Array.prototype.includes
Includes(list, x) ==
    \E i \in 1..Len(list) : list[i] = x

\* list.slice(0, n)
Slice0(list, n) ==
    SubSeq(list, 1, IF Len(list) < n THEN Len(list) ELSE n)

\* if (!recentPhrases.includes(text))
\*   setRecentPhrases(prev => [text, ...prev].slice(0, 5));
\* The test reads the list the closure captured; the updater receives the
\* current list.
RememberPhrase(seen, prev, text) ==
    IF ~Includes(seen, text)
    THEN Slice0(<<text>> \o prev, MaxRecent)
    ELSE prev

speak ==
    /\ \E text \in SpokenTexts :
          IF ~Truthy(Str(text))
          THEN UNCHANGED <<recentPhrases, utterance>>
          ELSE /\ utterance' = text
               /\ recentPhrases' =
                     RememberPhrase(seenRecentPhrases, recentPhrases, text)
    /\ UNCHANGED <<seenRecentPhrases, gatewayVars, modeVars, signVars,
                   liveVars, cameraVars, talkVars,
                   placeVars>>


(***************************************************************************)
(* Mode switch and sign-scan flow (App.tsx).                               *)
(***************************************************************************)
MaxCaptures ==
    6

Modes ==
    {"home", "talk_listen", "sign", "sos", "nearby", "settings"}

\* onClick={() => setCurrentMode(tab.id)} of the navigation bar, the home
\* tiles and the settings buttons
setCurrentMode(m) ==
    /\ seenUser # Null
    /\ currentMode' = m
    /\ UNCHANGED <<seenCurrentMode, speakVars, signVars, gatewayVars,
                   placeVars>>
    /\ UNCHANGED <<liveVars, cameraVars, talkVars>>

\* What an interpretSignLanguage call settles with: an interpreted phrase
\* or one of its failure strings, or (client construction) a rejection.
InterpretOutcomes ==
    {Str(<<"a">>), Str(ERROR_INTERPRETING), Exception}

\* the blob canvas.toBlob hands to its callback; null when the frame
\* cannot be encoded
BlobOutcomes ==
    {"frame", "null"}

\* a history that keeps the oldest five entries, newest last
PushHistoryAtEnd(prev, r) ==
    Slice0(prev \o <<r>>, MaxRecent)

\* setSignHistory(prev => [result, ...prev].slice(0, 5))
PushHistory(prev, r) ==
    Slice0(<<r>> \o prev, MaxRecent)

\* SNAP (lines 267-275, up to canvas.toBlob).  The button exists while the
\* sign view is mounted and is disabled while the rendered isSignLoading
\* is true, which is also what the guard of line 268 reads.
handleCapture ==
    /\ seenCurrentMode = "sign"
    /\ ~seenIsSignLoading
    /\ captures < MaxCaptures
    /\ isSignLoading' = TRUE
    /\ blobsPending' = blobsPending + 1
    /\ captures' = captures + 1
    /\ UNCHANGED <<transcript, seenIsSignLoading, signHistory,
                   interpretsPending, completions>>
    /\ UNCHANGED <<speakVars, modeVars, gatewayVars, liveVars, cameraVars,
                   talkVars,
                   placeVars>>

\* the toBlob callback (lines 275-282) up to its await
toBlobCallback ==
    /\ blobsPending > 0
    /\ blobsPending' = blobsPending - 1
    /\ \E blob \in BlobOutcomes :
          IF blob # "null"
          THEN /\ interpretsPending' = interpretsPending + 1
               /\ UNCHANGED isSignLoading
          ELSE /\ isSignLoading' = FALSE
               /\ UNCHANGED interpretsPending
    /\ UNCHANGED <<transcript, seenIsSignLoading, signHistory, captures,
                   completions>>
    /\ UNCHANGED <<speakVars, modeVars, gatewayVars, liveVars, cameraVars,
                   talkVars,
                   placeVars>>

\* the continuation after await interpretSignLanguage (lines 278-281); a
\* rejected call leaves the callback at the await
interpretSettled ==
    /\ interpretsPending > 0
    /\ interpretsPending' = interpretsPending - 1
    /\ \E r \in InterpretOutcomes :
          IF r.t = "string"
          THEN /\ transcript' = r.s
               /\ signHistory' = PushHistory(signHistory, r.s)
               /\ completions' = Append(completions, r.s)
               /\ isSignLoading' = FALSE
          ELSE UNCHANGED <<transcript, signHistory, completions,
                           isSignLoading>>
    /\ UNCHANGED <<seenIsSignLoading, blobsPending, captures>>
    /\ UNCHANGED <<speakVars, modeVars, gatewayVars, liveVars, cameraVars,
                   talkVars,
                   placeVars>>


(***************************************************************************)
(* Sign mode of the second application version (part_001): camera effect,  *)
(* live-scan interval and captureAndInterpret.                             *)
(***************************************************************************)
MaxStreams ==
    2

Modes_p1 ==
    {"home", "talk_listen", "sign", "nearby"}

\* setCurrentMode(...) of the home tiles and the navigation bar.  Entering
\* sign mode asks for the camera once more; the guard bounds how many
\* requests and unstopped streams are followed.
setCurrentMode_p1 ==
    /\ \E m \in Modes_p1 :
          /\ m = "sign" => orphanRequests + liveTracks < MaxStreams
          /\ currentMode' = m
    /\ UNCHANGED <<seenCurrentMode, speakVars, signVars, gatewayVars,
                   placeVars>>
    /\ UNCHANGED <<liveVars, cameraVars, talkVars>>

\* LIVE / STOP (line 667): setIsLiveScanning(!isLiveScanning)
toggleLiveScanning ==
    /\ seenCurrentMode = "sign"
    /\ isLiveScanning' = ~seenIsLiveScanning
    /\ UNCHANGED <<seenIsLiveScanning, liveScanTimer, timerIsSignLoading,
                   intervals>>
    /\ UNCHANGED <<speakVars, modeVars, signVars, cameraVars, talkVars,
                   gatewayVars, placeVars>>

\* captureAndInterpret (lines 371-396) as called from a closure in which
\* isSignLoading has the value `busy`; the refs are set while the sign view
\* is mounted; getContext('2d') may give null.
Capture(busy) ==
    IF seenCurrentMode # "sign" \/ busy
    THEN UNCHANGED <<isSignLoading, blobsPending, captures>>
    ELSE /\ captures < MaxCaptures
         /\ captures' = captures + 1
         /\ \E ctx \in BOOLEAN :
               IF ctx
               THEN /\ isSignLoading' = TRUE
                    /\ blobsPending' = blobsPending + 1
               ELSE /\ isSignLoading' = FALSE
                    /\ UNCHANGED blobsPending

\* SNAP (line 666), disabled while the rendered isSignLoading is true
captureAndInterpret ==
    /\ seenCurrentMode = "sign"
    /\ ~seenIsSignLoading
    /\ Capture(seenIsSignLoading)
    /\ UNCHANGED <<transcript, seenIsSignLoading, signHistory,
                   interpretsPending, completions>>
    /\ UNCHANGED <<speakVars, modeVars, liveVars, cameraVars, talkVars,
                   gatewayVars, placeVars>>

\* the interval callback (lines 285-287): it calls the captureAndInterpret
\* of the render in which the interval was created
liveScanTick ==
    /\ liveScanTimer
    /\ Capture(timerIsSignLoading)
    /\ UNCHANGED <<transcript, seenIsSignLoading, signHistory,
                   interpretsPending, completions>>
    /\ UNCHANGED <<speakVars, modeVars, liveVars, cameraVars, talkVars,
                   gatewayVars, placeVars>>

\* the toBlob callback after await interpretSignLanguage (lines 384-387)
interpretSettled_p1 ==
    /\ interpretsPending > 0
    /\ interpretsPending' = interpretsPending - 1
    /\ \E r \in InterpretOutcomes :
          IF r.t = "string"
          THEN /\ transcript' = r.s
               /\ isSignLoading' = FALSE
          ELSE UNCHANGED <<transcript, isSignLoading>>
    /\ UNCHANGED <<seenIsSignLoading, signHistory, blobsPending, captures,
                   completions>>
    /\ UNCHANGED <<speakVars, modeVars, liveVars, cameraVars, talkVars,
                   gatewayVars, placeVars>>

\* getUserMedia(...).then(s => { stream = s; ... }) (lines 268-271): the
\* grant reaches the closure of the effect that asked, which may already
\* have been cleaned up
getUserMediaGranted ==
    /\ \/ /\ cameraRequest
          /\ cameraRequest' = FALSE
          /\ stream' = TRUE
          /\ UNCHANGED orphanRequests
       \/ /\ orphanRequests > 0
          /\ orphanRequests' = orphanRequests - 1
          /\ UNCHANGED <<cameraRequest, stream>>
    /\ liveTracks' = liveTracks + 1
    /\ UNCHANGED <<speakVars, modeVars, signVars, liveVars, talkVars,
                   gatewayVars, placeVars>>

\* .catch(err => console.error("Camera access denied:", err)) (line 273)
getUserMediaDenied ==
    /\ \/ /\ cameraRequest
          /\ cameraRequest' = FALSE
          /\ UNCHANGED orphanRequests
       \/ /\ orphanRequests > 0
          /\ orphanRequests' = orphanRequests - 1
          /\ UNCHANGED cameraRequest
    /\ UNCHANGED <<stream, liveTracks>>
    /\ UNCHANGED <<speakVars, modeVars, signVars, liveVars, talkVars,
                   gatewayVars, placeVars>>

\* an effect that leaves the interval of the previous run alone
ClearedNever(n, running) ==
    n

\* if (liveScanTimerRef.current) clearInterval(liveScanTimerRef.current)
\* (lines 289 and 292), on n timers of which the ref holds a running one
\* or none
Cleared(n, running) ==
    IF running THEN n - 1 ELSE n

(***************************************************************************)
(* The language bar, the Add Language dialog and the label lookup of       *)
(* part_001.                                                               *)
(***************************************************************************)
MaxFetches ==
    2

MaxLookups ==
    2

\* l.code as a sequence, empty when the object has no code: the object
\* findLanguageDetails returns is whatever the reply parsed to
Code(l) ==
    IF "code" \in DOMAIN l THEN <<l.code>> ELSE <<>>

\* UI_TRANSLATIONS[lang.code] is defined
HasTable(l) ==
    \E c \in UI_TRANSLATIONS : Code(l) = <<c>>

\* the mapping fetchUITranslations returns when the labels were translated
\* into the language of that name
Translated(name) ==
    [t |-> "object", fields |-> UIKeys, language |-> name]

\* What a findLanguageDetails call settles with, as seen by its caller: a
\* new language, a language whose code the list already holds, null, or
\* (client construction) a rejection.
LookupOutcomes ==
    {Language("is-IS", "Icelandic"), Language("fr-FR", "Francais"), Null,
     Exception}

\* t(key, fallback) (lines 185-191) for a key of the string tables: the
\* name of the language the label is shown in
t_p1(l, dyn) ==
    IF dyn.fields # {}
    THEN dyn.language
    ELSE IF HasTable(l) THEN l.name ELSE "English"

\* a language button of the bar (line 89; onLangChange is setLang, line
\* 750); the buttons are those of the latest render, and the user presses
\* those of three languages
setLang ==
    /\ Len(uiFetches) < MaxFetches
    /\ \E i \in 1..Len(seenAvailableLanguages) :
          /\ Code(seenAvailableLanguages[i]) \in
                {<<"en-US">>, <<"fr-FR">>, <<"de-DE">>}
          /\ lang' = seenAvailableLanguages[i]
    /\ UNCHANGED <<seenLang, langFresh, availableLanguages,
                   seenAvailableLanguages, dynamicTranslations,
                   seenDynamicTranslations, isTranslatingUI, uiFetches,
                   lookups>>
    /\ UNCHANGED <<speakVars, modeVars, signVars, liveVars, cameraVars,
                   talkVars, locVars, nearbyVars, sosVars, sessionVars,
                   gatewayVars>>

\* Identify & Add (lines 780-783), up to the await
addLanguageClick ==
    /\ lookups < MaxLookups
    /\ \E modalInput \in {<<>>, <<"I">>} :
          IF modalInput = <<>>
          THEN UNCHANGED <<isTranslatingUI, lookups>>
          ELSE /\ isTranslatingUI' = TRUE
               /\ lookups' = lookups + 1
    /\ UNCHANGED <<lang, seenLang, langFresh, availableLanguages,
                   seenAvailableLanguages, dynamicTranslations,
                   seenDynamicTranslations, uiFetches>>
    /\ UNCHANGED <<speakVars, modeVars, signVars, liveVars, cameraVars,
                   talkVars, locVars, nearbyVars, sosVars, sessionVars,
                   gatewayVars>>

\* an updater that appends without removing the entry of the same code
AddLanguageKeepingOld(p, details) ==
    Append(p, details)

\* p => [...p.filter(l => l.code !== details.code), details] (line 785)
AddLanguage(p, details) ==
    Append(SelectSeq(p, LAMBDA l : Code(l) # Code(details)), details)

\* Identify & Add after the await (lines 784-789)
lookupSettled(details) ==
    /\ lookups > 0
    /\ Len(uiFetches) < MaxFetches
    /\ lookups' = lookups - 1
    /\ IF details = Exception
       THEN UNCHANGED <<lang, langFresh, availableLanguages,
                        isTranslatingUI>>
       ELSE /\ IF details # Null
               THEN /\ availableLanguages' =
                          AddLanguage(availableLanguages, details)
                    /\ lang' = details
                    /\ langFresh' = TRUE
               ELSE UNCHANGED <<lang, langFresh, availableLanguages>>
            /\ isTranslatingUI' = FALSE
    /\ UNCHANGED <<seenLang, seenAvailableLanguages, dynamicTranslations,
                   seenDynamicTranslations, uiFetches>>
    /\ UNCHANGED <<speakVars, modeVars, signVars, liveVars, cameraVars,
                   talkVars, locVars, nearbyVars, sosVars, sessionVars,
                   gatewayVars>>

\* fetchDynamic after the await (lines 202-208): the call returned the
\* translated labels or an empty mapping, or was rejected (client
\* construction); the mapping is stored unless the call was rejected, and
\* the busy flag is cleared
fetchDynamicSettled ==
    /\ \E i \in 1..Len(uiFetches) :
          /\ \E translations \in
                   {Translated(uiFetches[i]), Obj({}), Exception} :
                IF translations = Exception
                THEN UNCHANGED dynamicTranslations
                ELSE dynamicTranslations' = translations
          /\ uiFetches' = [k \in 1..(Len(uiFetches) - 1) |->
                              IF k < i THEN uiFetches[k]
                                       ELSE uiFetches[k + 1]]
    /\ isTranslatingUI' = FALSE
    /\ UNCHANGED <<lang, seenLang, langFresh, availableLanguages,
                   seenAvailableLanguages, seenDynamicTranslations,
                   lookups>>
    /\ UNCHANGED <<speakVars, modeVars, signVars, liveVars, cameraVars,
                   talkVars, locVars, nearbyVars, sosVars, sessionVars,
                   gatewayVars>>

\* A render of part_001 with its effects (lines 193-210 and 256-294).  The
\* effects whose dependencies changed since the previous render are cleaned
\* up and run again: reset of the inputs, camera, live-scan interval,
\* fetchDynamic.  Of the fields the reset effect clears, inputText and
\* keyboardSuggestions are written by no action followed here and are left
\* out.
render_p1 ==
    LET modeChanged == currentMode # seenCurrentMode
        liveChanged == isLiveScanning # seenIsLiveScanning
    IN  /\ seenRecentPhrases' = recentPhrases
        /\ seenCurrentMode' = currentMode
        /\ seenIsSignLoading' = isSignLoading
        /\ seenIsLiveScanning' = isLiveScanning
        /\ IF modeChanged
           THEN /\ transcript' = <<>>
                /\ isListening' = FALSE
                /\ isLiveScanning' = FALSE
                /\ stream' = FALSE
                /\ liveTracks' = IF stream THEN liveTracks - 1 ELSE liveTracks
                /\ orphanRequests' =
                      IF cameraRequest THEN orphanRequests + 1
                                       ELSE orphanRequests
                /\ cameraRequest' = (currentMode = "sign")
           ELSE UNCHANGED <<transcript, isListening, isLiveScanning,
                            cameraVars>>
        /\ IF modeChanged \/ liveChanged
           THEN /\ liveScanTimer' = (isLiveScanning /\ currentMode = "sign")
                /\ timerIsSignLoading' = isSignLoading
                /\ intervals' =
                      IF isLiveScanning /\ currentMode = "sign"
                      THEN Cleared(intervals, liveScanTimer) + 1
                      ELSE Cleared(intervals, liveScanTimer)
           ELSE UNCHANGED <<liveScanTimer, timerIsSignLoading, intervals>>
        /\ seenLang' = lang
        /\ langFresh' = FALSE
        /\ seenAvailableLanguages' = availableLanguages
        /\ seenDynamicTranslations' = dynamicTranslations
        /\ IF lang # seenLang \/ langFresh
           THEN IF HasTable(lang)
                THEN /\ dynamicTranslations' = Obj({})
                     /\ UNCHANGED <<isTranslatingUI, uiFetches>>
                ELSE /\ isTranslatingUI' = TRUE
                     /\ uiFetches' = Append(uiFetches, lang.name)
                     /\ UNCHANGED dynamicTranslations
           ELSE UNCHANGED <<dynamicTranslations, isTranslatingUI, uiFetches>>
        /\ UNCHANGED <<lang, availableLanguages, lookups>>
        /\ UNCHANGED <<recentPhrases, utterance, currentMode, isSignLoading,
                       signHistory, blobsPending, interpretsPending,
                       captures, completions, gatewayVars, locVars,
                       nearbyVars, sosVars, sessionVars>>
        /\ UNCHANGED <<isTranslating, recStarting, recListening,
                       recResulted, translatesPending>>

NextLive ==
    \/ setCurrentMode_p1
    \/ toggleLiveScanning
    \/ captureAndInterpret
    \/ liveScanTick
    \/ toBlobCallback
    \/ interpretSettled_p1
    \/ getUserMediaGranted
    \/ getUserMediaDenied
    \/ render_p1

SpecLive ==
    Init /\ [][NextLive]_vars

NextLang ==
    \/ setLang
    \/ addLanguageClick
    \/ \E details \in LookupOutcomes : lookupSettled(details)
    \/ fetchDynamicSettled
    \/ render_p1

SpecLang ==
    Init /\ [][NextLang]_vars

(***************************************************************************)
(* Talk and listen flow (App.tsx): speech recognition and translation of   *)
(* its result.                                                             *)
(***************************************************************************)
MaxSessions ==
    2

\* What a translateText call settles with, as seen by its caller.
TranslateOutcomes ==
    {Str(<<"a">>), Str(<<"b">>), Exception}

\* LISTEN / STOP (lines 245-265): a new recognition is created and started
\* on every click, on a platform that has speech recognition
startListening ==
    /\ seenCurrentMode = "talk_listen"
    /\ recStarting + recListening + recResulted < MaxSessions
    /\ recStarting' = recStarting + 1
    /\ UNCHANGED <<isListening, isTranslating, recListening, recResulted,
                   translatesPending>>
    /\ UNCHANGED <<speakVars, modeVars, signVars, liveVars, cameraVars,
                   gatewayVars, placeVars>>

\* rec.onstart = () => setIsListening(true)
onstart ==
    /\ recStarting > 0
    /\ recStarting' = recStarting - 1
    /\ recListening' = recListening + 1
    /\ isListening' = TRUE
    /\ UNCHANGED <<isTranslating, recResulted, translatesPending>>
    /\ UNCHANGED <<speakVars, modeVars, signVars, liveVars, cameraVars,
                   gatewayVars, placeVars>>

\* rec.onresult (lines 254-258) up to await translateText; the guard bounds
\* the translations followed at once
onresult ==
    /\ recListening > 0
    /\ translatesPending < MaxSessions
    /\ recListening' = recListening - 1
    /\ recResulted' = recResulted + 1
    /\ isTranslating' = TRUE
    /\ translatesPending' = translatesPending + 1
    /\ UNCHANGED <<isListening, recStarting>>
    /\ UNCHANGED <<speakVars, modeVars, signVars, liveVars, cameraVars,
                   gatewayVars, placeVars>>

\* rec.onresult after the await (lines 259-261); a rejected call leaves the
\* handler at the await
translateSettled ==
    /\ translatesPending > 0
    /\ translatesPending' = translatesPending - 1
    /\ \E r \in TranslateOutcomes :
          IF r.t = "string"
          THEN /\ transcript' = r.s
               /\ isTranslating' = FALSE
          ELSE UNCHANGED <<transcript, isTranslating>>
    /\ UNCHANGED <<isListening, recStarting, recListening, recResulted>>
    /\ UNCHANGED <<isSignLoading, seenIsSignLoading, signHistory,
                   blobsPending, interpretsPending, captures, completions>>
    /\ UNCHANGED <<speakVars, modeVars, liveVars, cameraVars, gatewayVars,
                   placeVars>>

\* rec.onend = () => setIsListening(false), with or without a result
onend ==
    /\ \/ /\ recListening > 0
          /\ recListening' = recListening - 1
          /\ UNCHANGED recResulted
       \/ /\ recResulted > 0
          /\ recResulted' = recResulted - 1
          /\ UNCHANGED recListening
    /\ isListening' = FALSE
    /\ UNCHANGED <<isTranslating, recStarting, translatesPending>>
    /\ UNCHANGED <<speakVars, modeVars, signVars, liveVars, cameraVars,
                   gatewayVars, placeVars>>


(***************************************************************************)
(* Location, nearby search and SOS confirmation (App.tsx).                 *)
(***************************************************************************)
MaxLocationRequests ==
    1

MaxSearches ==
    2

MaxIntents ==
    2

Categories ==
    {"hospital", "police", "pharmacy"}

\* the success and error callbacks of getCurrentPosition (lines 157-160)
positionDelivered ==
    /\ locationRequests > 0
    /\ locationRequests' = locationRequests - 1
    /\ \E c \in Coords :
          currentCoords' = [t |-> "coords", lat |-> c[1], lng |-> c[2]]
    /\ coordsFresh' = TRUE
    /\ UNCHANGED <<seenCurrentCoords, nearbyVars, sosVars>>
    /\ UNCHANGED <<speakVars, modeVars, signVars, liveVars, cameraVars,
                   talkVars, sessionVars, gatewayVars, langVars>>

positionDenied ==
    /\ locationRequests > 0
    /\ locationRequests' = locationRequests - 1
    /\ UNCHANGED <<currentCoords, seenCurrentCoords, coordsFresh,
                   nearbyVars, sosVars>>
    /\ UNCHANGED <<speakVars, modeVars, signVars, liveVars, cameraVars,
                   talkVars, sessionVars, gatewayVars, langVars>>

\* onClick={() => setActiveFilter(cat.id)} (line 486)
setActiveFilter ==
    /\ seenCurrentMode = "nearby"
    /\ \E c \in Categories : activeFilter' = c
    /\ UNCHANGED <<seenActiveFilter, nearbyResults, isNearbyLoading,
                   seenIsNearbyLoading, searches, locVars, sosVars>>
    /\ UNCHANGED <<speakVars, modeVars, signVars, liveVars, cameraVars,
                   talkVars, sessionVars, gatewayVars, langVars>>

\* What a getNearbyPlaces call settles with, as seen by its caller.
NearbyOutcomes ==
    {Places(Str(<<"a">>), <<[t |-> "place", id |-> "m1"]>>),
     Places(Str(ERROR_FETCHING), <<>>),
     Exception}

\* a test that takes every cached result for empty
HasLinksNever(r) ==
    FALSE

HasLinks(r) ==
    Len(r.links) > 0

\* performSearch (lines 163-167) up to its await, in a closure holding the
\* given coordinates and filter; `by` records who called it
performSearch(coords, filter, by) ==
    IF coords = Null
    THEN UNCHANGED <<isNearbyLoading, searches>>
    ELSE /\ Len(searches) < MaxSearches
         /\ isNearbyLoading' = TRUE
         /\ searches' = Append(searches, [filter |-> filter, by |-> by])

\* Redo Search / Scan Location (lines 520, 525), shown while the rendered
\* isNearbyLoading is false
searchButton ==
    /\ seenCurrentMode = "nearby"
    /\ ~seenIsNearbyLoading
    /\ performSearch(seenCurrentCoords, seenActiveFilter, "button")
    /\ UNCHANGED <<activeFilter, seenActiveFilter, nearbyResults,
                   seenIsNearbyLoading, locVars, sosVars>>
    /\ UNCHANGED <<speakVars, modeVars, signVars, liveVars, cameraVars,
                   talkVars, sessionVars, gatewayVars, langVars>>

RemoveAt(list, i) ==
    SubSeq(list, 1, i - 1) \o SubSeq(list, i + 1, Len(list))

\* a continuation that stores the result under the filter active now
searchSettledUnderActive ==
    /\ \E i \in 1..Len(searches), r \in NearbyOutcomes :
          /\ searches' = RemoveAt(searches, i)
          /\ nearbyResults' =
                IF r.t = "places"
                THEN [nearbyResults EXCEPT ![activeFilter] = r]
                ELSE nearbyResults
    /\ isNearbyLoading' = FALSE
    /\ UNCHANGED <<activeFilter, seenActiveFilter, seenIsNearbyLoading,
                   locVars, sosVars>>
    /\ UNCHANGED <<speakVars, modeVars, signVars, liveVars, cameraVars,
                   talkVars, sessionVars, gatewayVars, langVars>>

\* performSearch after the await (lines 168-173)
searchSettled ==
    /\ \E i \in 1..Len(searches), r \in NearbyOutcomes :
          /\ searches' = RemoveAt(searches, i)
          /\ nearbyResults' =
                IF r.t = "places"
                THEN [nearbyResults EXCEPT ![searches[i].filter] = r]
                ELSE nearbyResults
    /\ isNearbyLoading' = FALSE
    /\ UNCHANGED <<activeFilter, seenActiveFilter, seenIsNearbyLoading,
                   locVars, sosVars>>
    /\ UNCHANGED <<speakVars, modeVars, signVars, liveVars, cameraVars,
                   talkVars, sessionVars, gatewayVars, langVars>>

\* act911 (lines 219-223); the open modal covers the SOS buttons
act911 ==
    /\ seenCurrentMode = "sos"
    /\ ~seenShow911Confirmation
    /\ \E type \in {"call", "text"} : emergencyType' = type
    /\ show911Confirmation' = TRUE
    /\ UNCHANGED <<seenShow911Confirmation, seenEmergencyType, intents,
                   locVars, nearbyVars>>
    /\ UNCHANGED <<speakVars, modeVars, signVars, liveVars, cameraVars,
                   talkVars, sessionVars, gatewayVars, langVars>>

\* onClose of the modal and its Cancel button (lines 683, 697)
closeConfirmation ==
    /\ seenShow911Confirmation
    /\ show911Confirmation' = FALSE
    /\ UNCHANGED <<seenShow911Confirmation, emergencyType,
                   seenEmergencyType, intents, locVars, nearbyVars>>
    /\ UNCHANGED <<speakVars, modeVars, signVars, liveVars, cameraVars,
                   talkVars, sessionVars, gatewayVars, langVars>>

\* currentCoords?.lat, currentCoords?.lng
OptMember(coords, field) ==
    IF coords = Null THEN Undefined ELSE [t |-> "number", n |-> coords[field]]

\* an intent that always dials
HrefDial(type, coords) ==
    [scheme |-> "tel", to |-> "911"]

\* the href of line 227
Href(type, coords) ==
    IF type = "call"
    THEN [scheme |-> "tel", to |-> "911"]
    ELSE [scheme |-> "sms", to |-> "911",
          lat |-> OptMember(coords, "lat"), lng |-> OptMember(coords, "lng")]

\* Confirm (lines 225-230)
confirmSOS ==
    /\ seenShow911Confirmation
    /\ Len(intents) < MaxIntents
    /\ intents' = Append(intents, Href(seenEmergencyType, seenCurrentCoords))
    /\ show911Confirmation' = FALSE
    /\ UNCHANGED <<seenShow911Confirmation, emergencyType,
                   seenEmergencyType, locVars, nearbyVars>>
    /\ UNCHANGED <<speakVars, modeVars, signVars, liveVars, cameraVars,
                   talkVars, sessionVars, gatewayVars, langVars>>

(***************************************************************************)
(* Login, logout and the alert to the emergency contacts (App.tsx).        *)
(***************************************************************************)
MaxTimers ==
    2

MaxAlerts ==
    4

\* the login buttons (lines 586, 590) up to setTimeout; they are shown on
\* the auth screen while the rendered isAuthLoading is false
LoginClick(method) ==
    /\ seenUser = Null
    /\ ~seenIsAuthLoading
    /\ Len(loginTimers) < MaxTimers
    /\ isAuthLoading' = TRUE
    /\ loginTimers' = Append(loginTimers, method)
    /\ UNCHANGED <<user, seenUser, storedUser, seenIsAuthLoading,
                   emergencyContacts, alerts>>
    /\ UNCHANGED <<locVars, nearbyVars, sosVars>>
    /\ UNCHANGED <<speakVars, modeVars, signVars, liveVars, cameraVars,
                   talkVars, gatewayVars, langVars>>

loginWithGoogle ==
    LoginClick("google")

loginAsGuest ==
    LoginClick("guest")

\* the setTimeout callbacks (lines 179-190 and 195-200); `now` is Date.now()
loginTimeout ==
    /\ \E i \in 1..Len(loginTimers), now \in {1, 2} :
          LET profile == IF loginTimers[i] = "google" THEN GoogleUser
                                                     ELSE GuestUser(now)
          IN  /\ loginTimers' = RemoveAt(loginTimers, i)
              /\ user' = profile
              /\ storedUser' = Json(profile)
    /\ isAuthLoading' = FALSE
    /\ UNCHANGED <<seenUser, seenIsAuthLoading, emergencyContacts, alerts>>
    /\ UNCHANGED <<locVars, nearbyVars, sosVars>>
    /\ UNCHANGED <<speakVars, modeVars, signVars, liveVars, cameraVars,
                   talkVars, gatewayVars, langVars>>

\* a logout that leaves the stored profile in place
logOutKeepsItem ==
    /\ seenUser # Null
    /\ seenCurrentMode = "settings"
    /\ user' = Null
    /\ UNCHANGED <<seenUser, storedUser, isAuthLoading, seenIsAuthLoading,
                   loginTimers, emergencyContacts, alerts>>
    /\ UNCHANGED <<locVars, nearbyVars, sosVars>>
    /\ UNCHANGED <<speakVars, modeVars, signVars, liveVars, cameraVars,
                   talkVars, gatewayVars, langVars>>

\* Log Out (line 569), a button of the settings view
logOut ==
    /\ seenUser # Null
    /\ seenCurrentMode = "settings"
    /\ user' = Null
    /\ storedUser' = Null
    /\ UNCHANGED <<seenUser, isAuthLoading, seenIsAuthLoading, loginTimers,
                   emergencyContacts, alerts>>
    /\ UNCHANGED <<locVars, nearbyVars, sosVars>>
    /\ UNCHANGED <<speakVars, modeVars, signVars, liveVars, cameraVars,
                   talkVars, gatewayVars, langVars>>

\* the alert message of line 238 with its map link
AlertMessage(coords) ==
    [alert |-> "EMERGENCY ALERT from SpeakEase",
     lat |-> coords.lat, lng |-> coords.lng,
     maps |-> <<coords.lat, coords.lng>>]

\* an alert that reaches the first contact only
AlertFirstContact(contacts, coords) ==
    [k \in 1..(IF Len(contacts) > 0 THEN 1 ELSE 0) |->
        [scheme |-> "sms", to |-> contacts[k].phone,
         body |-> AlertMessage(coords)]]

\* emergencyContacts.forEach(contact => window.open(`sms:...`)) (239-241)
AlertIntents(contacts, coords) ==
    [k \in 1..Len(contacts) |->
        [scheme |-> "sms", to |-> contacts[k].phone,
         body |-> AlertMessage(coords)]]

\* ALERT CONTACTS (line 443), a button of the SOS view, lines 232-243
shareLocationWithContacts ==
    /\ seenUser # Null
    /\ seenCurrentMode = "sos"
    /\ IF seenCurrentCoords = Null
       THEN /\ locationRequests < MaxLocationRequests
            /\ locationRequests' = locationRequests + 1
            /\ UNCHANGED alerts
       ELSE /\ Len(alerts) + Len(emergencyContacts) <= MaxAlerts
            /\ alerts' = alerts \o
                             AlertIntents(emergencyContacts, seenCurrentCoords)
            /\ UNCHANGED locationRequests
    /\ UNCHANGED <<user, seenUser, storedUser, isAuthLoading,
                   seenIsAuthLoading, loginTimers, emergencyContacts>>
    /\ UNCHANGED <<currentCoords, seenCurrentCoords, coordsFresh, nearbyVars,
                   sosVars>>
    /\ UNCHANGED <<speakVars, modeVars, signVars, liveVars, cameraVars,
                   talkVars, gatewayVars, langVars>>

\* A render of App.tsx with its effects: the mode effect (lines 143-147)
\* asks for the position, the nearby effect (lines 149-153) searches when
\* one of its dependencies changed and the active category has no links.
render ==
    LET modeChanged == currentMode # seenCurrentMode
        nearbyChanged == \/ modeChanged
                         \/ activeFilter # seenActiveFilter
                         \/ coordsFresh
    IN  /\ seenRecentPhrases' = recentPhrases
        /\ seenCurrentMode' = currentMode
        /\ seenIsSignLoading' = isSignLoading
        /\ seenCurrentCoords' = currentCoords
        /\ coordsFresh' = FALSE
        /\ seenActiveFilter' = activeFilter
        /\ seenIsNearbyLoading' = isNearbyLoading
        /\ seenShow911Confirmation' = show911Confirmation
        /\ seenEmergencyType' = emergencyType
        /\ seenUser' = user
        /\ seenIsAuthLoading' = isAuthLoading
        /\ IF modeChanged /\ currentMode \in {"nearby", "sos"}
           THEN /\ locationRequests < MaxLocationRequests
                /\ locationRequests' = locationRequests + 1
           ELSE UNCHANGED locationRequests
        /\ IF /\ nearbyChanged
              /\ currentMode = "nearby"
              /\ ~HasLinks(nearbyResults[activeFilter])
           THEN performSearch(currentCoords, activeFilter, "effect")
           ELSE UNCHANGED <<isNearbyLoading, searches>>
        /\ UNCHANGED <<recentPhrases, utterance, currentMode, transcript,
                       isSignLoading, signHistory, blobsPending,
                       interpretsPending, captures, completions>>
        /\ UNCHANGED <<currentCoords, activeFilter, nearbyResults,
                       show911Confirmation, emergencyType, intents>>
        /\ UNCHANGED <<user, storedUser, isAuthLoading, loginTimers,
                       emergencyContacts, alerts>>
        /\ UNCHANGED <<liveVars, cameraVars, talkVars, gatewayVars, langVars>>

(***************************************************************************)
(* The flows of App.tsx, one specification each.                           *)
(***************************************************************************)
NextSpeak ==
    \/ speak
    \/ render

SpecSpeak ==
    Init /\ [][NextSpeak]_vars

NextSign ==
    \/ \E m \in Modes : setCurrentMode(m)
    \/ handleCapture
    \/ toBlobCallback
    \/ interpretSettled
    \/ render

SpecSign ==
    Init /\ [][NextSign]_vars

\* The browser delivers every callback that is due, every started
\* interpretSignLanguage call settles, and React renders after an update.
FairSign ==
    /\ SpecSign
    /\ WF_vars(toBlobCallback)
    /\ WF_vars(interpretSettled)
    /\ WF_vars(render)

NextTalk ==
    \/ \E m \in Modes : setCurrentMode(m)
    \/ startListening
    \/ onstart
    \/ onresult
    \/ translateSettled
    \/ onend
    \/ render

SpecTalk ==
    Init /\ [][NextTalk]_vars

NextNearby ==
    \/ \E m \in {"home", "nearby"} : setCurrentMode(m)
    \/ positionDelivered
    \/ positionDenied
    \/ setActiveFilter
    \/ searchButton
    \/ searchSettled
    \/ render

SpecNearby ==
    Init /\ [][NextNearby]_vars

NextSOS ==
    \/ \E m \in {"home", "sos"} : setCurrentMode(m)
    \/ positionDelivered
    \/ positionDenied
    \/ act911
    \/ closeConfirmation
    \/ confirmSOS
    \/ render

SpecSOS ==
    Init /\ [][NextSOS]_vars

NextSession ==
    \/ loginWithGoogle
    \/ loginAsGuest
    \/ loginTimeout
    \/ logOut
    \/ \E m \in {"home", "sos", "settings"} : setCurrentMode(m)
    \/ positionDelivered
    \/ positionDenied
    \/ shareLocationWithContacts
    \/ render

SpecSession ==
    InitSession /\ [][NextSession]_vars

(***************************************************************************)
(* Vocabulary of the claims.                                               *)
(***************************************************************************)
Returned(o) ==
    op = o /\ pc = "returned"

CallFailed ==
    reply.kind = "error"

Answered ==
    reply.kind = "answer"

AllWhitespace(s) ==
    \A i \in 1..Len(s) : s[i] \in Whitespace

\* t is s without its leading and trailing whitespace, stated without Trim:
\* s is whitespace, then t, then whitespace, and t has no whitespace at
\* either end.
IsTrimOf(t, s) ==
    /\ t # <<>> => (t[1] \notin Whitespace /\ t[Len(t)] \notin Whitespace)
    /\ \E i \in 0..Len(s) :
          /\ i + Len(t) <= Len(s)
          /\ AllWhitespace(SubSeq(s, 1, i))
          /\ SubSeq(s, i + 1, i + Len(t)) = t
          /\ AllWhitespace(SubSeq(s, i + Len(t) + 1, Len(s)))

\* the reply carries no text, or text that is empty once trimmed
BlankReply ==
    reply.text.t = "string" => AllWhitespace(reply.text.s)

(***************************************************************************)
(* C1.  No Gateway operation ever raises an error to its caller, whatever  *)
(* the external call or the client construction does.                      *)
(* Violated: the client is constructed before the try block, so a          *)
(* constructor that throws rejects the operation's promise.                *)
(***************************************************************************)
C1_NeverRaises ==
    pc # "raised"

(***************************************************************************)
(* C2.  Every invocation that is pending is eventually settled, given      *)
(* that the FileReader and the external call eventually complete.  (A      *)
(* rejection counts as settled here; C1 is about rejections.)              *)
(* Violated: after a failed read the loadend handler throws before it      *)
(* resolves the promise interpretSignLanguage awaits.                      *)
(***************************************************************************)
C2_EventuallySettles ==
    (pc \in {"awaitBase64", "awaitResponse"}) ~> (pc \in {"returned", "raised"})

(***************************************************************************)
(* C3.  translateText with empty text returns the empty string and issues  *)
(* no external call, for every target language.                            *)
(***************************************************************************)
C3_EmptyTextShortCircuit ==
    (op = "translateText" /\ args.text = <<>>)
        => (pc = "returned" /\ result = Str(<<>>) /\ calls = 0)

C3_Witness ==
    /\ Returned("translateText")
    /\ args.text = <<>>
    /\ args.targetLang = "French"

(***************************************************************************)
(* C4.  For non-empty text, when the external call of translateText fails  *)
(* or its reply is empty (no text, or the empty string), translateText     *)
(* returns the original text unchanged.                                    *)
(***************************************************************************)
C4_FailureKeepsText ==
    (/\ Returned("translateText")
     /\ args.text # <<>>
     /\ \/ CallFailed
        \/ Answered /\ reply.text \in {Undefined, Str(<<>>)})
        => result = Str(args.text)

C4_Witness ==
    /\ Returned("translateText")
    /\ args.text = <<"a", " ", "b">>
    /\ CallFailed
    /\ calls = 1

(***************************************************************************)
(* C5 as stated.  detectLanguage returns "en-US" on empty input (no call)  *)
(* and on call failure; in every other case it returns the trimmed reply.  *)
(* Violated: a successful call whose reply is empty yields "en-US", not    *)
(* the (empty) trimmed reply.                                              *)
(***************************************************************************)
C5_Original ==
    Returned("detectLanguage")
        => IF args.text = <<>>
           THEN result = Str(EN_US) /\ calls = 0
           ELSE IF CallFailed
                THEN result = Str(EN_US)
                ELSE /\ reply.text.t = "string"
                     /\ result.t = "string"
                     /\ IsTrimOf(result.s, reply.text.s)

(***************************************************************************)
(* C5 amended.  detectLanguage returns "en-US" on empty input (no call),   *)
(* on call failure, and when the reply has no text or only whitespace;     *)
(* otherwise it returns the trimmed reply.                                 *)
(***************************************************************************)
C5_Amended ==
    Returned("detectLanguage")
        => IF args.text = <<>>
           THEN result = Str(EN_US) /\ calls = 0
           ELSE IF CallFailed \/ BlankReply
                THEN result = Str(EN_US)
                ELSE /\ result.t = "string"
                     /\ result.s # <<>>
                     /\ IsTrimOf(result.s, reply.text.s)

C5_Witness ==
    /\ Returned("detectLanguage")
    /\ Answered
    /\ reply.text = Str(<<" ", "a", " ">>)
    /\ result = Str(<<"a">>)

(***************************************************************************)
(* C6.  The links of getNearbyPlaces are exactly the place references of   *)
(* the chunks that carry one, in chunk order: every link is a place        *)
(* reference, there are as many links as carrying chunks, and the k-th     *)
(* link is the reference of the k-th carrying chunk.  Missing grounding    *)
(* metadata gives no links.                                                *)
(***************************************************************************)
C6_LinksAreThePlaceReferences ==
    (Returned("getNearbyPlaces") /\ Answered)
        => LET chunks == IF reply.grounding.t = "array"
                         THEN reply.grounding.items
                         ELSE <<>>
               carrying == {i \in 1..Len(chunks) : chunks[i].maps \in PlaceRefs}
               links == result.links
           IN  /\ \A k \in 1..Len(links) : links[k] \in PlaceRefs
               /\ Len(links) = Cardinality(carrying)
               /\ \A i \in carrying :
                     links[Cardinality({j \in carrying : j <= i})]
                        = chunks[i].maps

C6_Witness ==
    /\ Returned("getNearbyPlaces")
    /\ Answered
    /\ reply.grounding.t = "array"
    /\ Len(reply.grounding.items) = 3
    /\ reply.grounding.items[1].maps = Undefined
    /\ reply.grounding.items[2].maps.t = "place"
    /\ reply.grounding.items[3].maps.t = "place"
    /\ reply.grounding.items[2] # reply.grounding.items[3]
    /\ Len(result.links) = 2

(***************************************************************************)
(* C7.  When the external call of getNearbyPlaces fails, the result is     *)
(* the fixed error summary with an empty links list, for all coordinates   *)
(* and target languages.                                                   *)
(***************************************************************************)
C7_FailureSummary ==
    (Returned("getNearbyPlaces") /\ CallFailed)
        => (result.text = Str(ERROR_FETCHING) /\ result.links = <<>>)

C7_Witness ==
    /\ Returned("getNearbyPlaces")
    /\ CallFailed
    /\ args.coords = <<12, 56>>
    /\ args.targetLang = "French"

(***************************************************************************)
(* C8.  findLanguageDetails returns a record carrying code, name and       *)
(* nativeName, or null; so a failed call and a reply that is not such a    *)
(* record both give null.                                                  *)
(* Violated: the parsed reply is returned unvalidated, so a JSON object    *)
(* that lacks a member is returned as it is.                               *)
(***************************************************************************)
C8_FullRecordOrNull ==
    Returned("findLanguageDetails")
        => \/ result = Null
           \/ result.t = "object" /\ LanguageKeys \subseteq result.fields

(***************************************************************************)
(* C9.  interpretSignLanguage returns the trimmed reply when that is       *)
(* non-empty, "Recognition failed." when the call succeeded with an empty  *)
(* reply (no text, or nothing but whitespace), and "Error interpreting     *)
(* sign." when the call errored.                                           *)
(***************************************************************************)
C9_FailureStringsDistinguished ==
    Returned("interpretSignLanguage")
        => IF CallFailed
           THEN result = Str(ERROR_INTERPRETING)
           ELSE IF BlankReply
                THEN result = Str(RECOGNITION_FAILED)
                ELSE /\ result.t = "string"
                     /\ result.s # <<>>
                     /\ IsTrimOf(result.s, reply.text.s)

C9_Witness ==
    /\ Returned("interpretSignLanguage")
    /\ Answered
    /\ reply.text = Str(<<>>)
    /\ result = Str(RECOGNITION_FAILED)
    /\ reader = "done"

(***************************************************************************)
(* C10.  fetchUITranslations, called with N keys, returns on success (the  *)
(* reply is one JSON object with a member for each supplied key and no     *)
(* other member) a mapping whose key set is exactly the supplied keys;     *)
(* on call failure or any other reply it returns the empty mapping.        *)
(***************************************************************************)
C10_WellFormedFor(text, keys) ==
    /\ text.t = "string"
    /\ Len(text.s) >= 2
    /\ Head(text.s) = "{"
    /\ text.s[Len(text.s)] = "}"
    /\ \A i \in 2..(Len(text.s) - 1) : \E k \in 1..Len(keys) : text.s[i] = keys[k]
    /\ \A k \in 1..Len(keys) : \E i \in 2..(Len(text.s) - 1) : text.s[i] = keys[k]

C11_Fallback ==
    IF op = "detectLanguage" THEN result = Str(EN_US)
    ELSE IF op = "translateText" THEN result = Str(args.text)
    ELSE IF op = "getNearbyPlaces" THEN result.text = Str(ERROR_FETCHING)
    ELSE IF op = "findLanguageDetails" THEN result = Null
    ELSE IF op = "interpretSignLanguage" THEN result = Str(ERROR_INTERPRETING)
    ELSE result = Obj({})

C11_AtMostOneRequest ==
    /\ calls <= 1
    /\ CallFailed => (pc = "returned" /\ calls = 1 /\ C11_Fallback)

C11_Witness ==
    /\ Returned("getNearbyPlaces")
    /\ CallFailed
    /\ calls = 1
    /\ result.links = <<>>

(***************************************************************************)
(* C12.  After any sequence of speak calls, calls issued before the         *)
(* previous update was rendered included, the recent-phrases list holds    *)
(* at most 5 entries and no text twice.                                    *)
(* Violated: the includes test reads the list of the last render while     *)
(* the updater prepends to the current list, so a text spoken twice        *)
(* before a render is entered twice.                                       *)
(***************************************************************************)
C12_RecentBoundedDistinct ==
    /\ Len(recentPhrases) <= 5
    /\ \A i, j \in 1..Len(recentPhrases) :
          i # j => recentPhrases[i] # recentPhrases[j]

(***************************************************************************)
(* C13.  The sign-scan history holds at most 5 entries, most recent        *)
(* first: it is the last 5 completed interpretations (all of them while    *)
(* there are fewer), the latest at the head.                               *)
(***************************************************************************)
C13_HistoryIsLastFive ==
    /\ Len(signHistory) <= 5
    /\ Len(signHistory) = IF Len(completions) < 5 THEN Len(completions) ELSE 5
    /\ \A i \in 1..Len(signHistory) :
          signHistory[i] = completions[Len(completions) - i + 1]

\* a sixth interpretation has completed and differs from the one before
C13_Witness ==
    /\ Len(completions) = 6
    /\ Len(signHistory) = 5
    /\ signHistory[1] # signHistory[2]
    /\ signHistory[5] = completions[2]

(***************************************************************************)
(* C14.  A live-scan tick that fires while an interpretSignLanguage call   *)
(* of an earlier capture is outstanding starts no new capture, and at most *)
(* one interpretSignLanguage call is outstanding at any time.              *)
(***************************************************************************)
C14_TickSkippedWhileBusy ==
    [][/\ (liveScanTick /\ interpretsPending > 0) => captures' = captures
       /\ interpretsPending' <= 1]_vars

(***************************************************************************)
(* C15.  Once the app has left sign mode, no granted camera stream has     *)
(* running tracks, whatever the order of the grant and the mode switch.    *)
(***************************************************************************)
C15_TracksStoppedOutsideSign ==
    (currentMode # "sign" /\ seenCurrentMode # "sign") => liveTracks = 0

(***************************************************************************)
(* C16.  After a mode switch no result of a recognition session or of its  *)
(* translation call, all of which are started in talk mode, is written     *)
(* into the transient state: while another mode is current and rendered,   *)
(* the transcript and the listening and translating flags do not change.   *)
(***************************************************************************)
C16_NoWriteAfterModeSwitch ==
    [][(currentMode # "talk_listen" /\ seenCurrentMode # "talk_listen")
          => UNCHANGED <<transcript, isListening, isTranslating>>]_vars

(***************************************************************************)
(* C17.  At most one speech-recognition session is listening at any time.  *)
(***************************************************************************)
C17_OneSessionListening ==
    recListening + recResulted <= 1

(***************************************************************************)
(* C18.  The render that follows a change of the current mode leaves the   *)
(* transcript empty and the listening and live-scanning flags false.       *)
(***************************************************************************)
C18_ModeChangeResets ==
    [][(render /\ seenCurrentMode # currentMode)
          => (transcript' = <<>> /\ ~isListening' /\ ~isLiveScanning')]_vars

C20_IntentOnlyOnConfirm ==
    [][/\ (act911 \/ closeConfirmation) => intents' = intents
       /\ intents' # intents
             => /\ seenShow911Confirmation
                /\ Len(intents') = Len(intents) + 1
                /\ SubSeq(intents', 1, Len(intents)) = intents
                /\ intents'[Len(intents')].scheme =
                      (IF emergencyType = "call" THEN "tel" ELSE "sms")
                /\ ~show911Confirmation'
       /\ confirmSOS => intents' # intents]_vars

\* a text confirmation after a call confirmation
C20_Witness ==
    /\ Len(intents) = 2
    /\ intents[1].scheme = "tel"
    /\ intents[2].scheme = "sms"
    /\ ~show911Confirmation

(***************************************************************************)
(* C21.  Every SMS intent issued by a confirm carries the latitude and     *)
(* longitude held in currentCoords at the time of the confirmation.        *)
(***************************************************************************)
C21_IntentCarriesCoordinates ==
    [][(intents' # intents /\ intents'[Len(intents')].scheme = "sms")
          => /\ currentCoords # Null
             /\ intents'[Len(intents')].lat =
                   [t |-> "number", n |-> currentCoords.lat]
             /\ intents'[Len(intents')].lng =
                   [t |-> "number", n |-> currentCoords.lng]]_vars

(***************************************************************************)
(* C22.  The alert to the contacts, pressed on a screen that holds         *)
(* coordinates, opens exactly one SMS intent per stored emergency contact, *)
(* in order, each addressed to the contact's phone and carrying the alert  *)
(* message with the map link of those coordinates, and asks for no         *)
(* position; pressed without coordinates it opens none and asks for the    *)
(* position.                                                               *)
(***************************************************************************)
C22_OneAlertPerContact ==
    [][shareLocationWithContacts =>
          IF seenCurrentCoords # Null
          THEN /\ Len(alerts') = Len(alerts) + Len(emergencyContacts)
               /\ SubSeq(alerts', 1, Len(alerts)) = alerts
               /\ \A k \in 1..Len(emergencyContacts) :
                     LET sms == alerts'[Len(alerts) + k]
                     IN  /\ sms.scheme = "sms"
                         /\ sms.to = emergencyContacts[k].phone
                         /\ sms.body.alert = "EMERGENCY ALERT from SpeakEase"
                         /\ sms.body.maps = <<seenCurrentCoords.lat,
                                              seenCurrentCoords.lng>>
               /\ locationRequests' = locationRequests
          ELSE /\ alerts' = alerts
               /\ locationRequests' = locationRequests + 1]_vars

\* two contacts were alerted, each on their own phone
C22_Witness ==
    /\ Len(emergencyContacts) = 2
    /\ Len(alerts) = 2
    /\ alerts[1].to = "111"
    /\ alerts[2].to = "222"

(***************************************************************************)
(* C25.  The stored profile exists exactly when a user is logged in, and   *)
(* it then equals the user held in memory.                                 *)
(***************************************************************************)
C25_StoredProfileIsUser ==
    /\ (storedUser = Null) <=> (user = Null)
    /\ user # Null => JsonOf(storedUser) = user

\* a guest who logged in at time 2 is the user and is stored
C25_Witness ==
    /\ user # Null
    /\ user.authMethod = "guest"
    /\ user.id = <<"guest-", 2>>
    /\ storedUser = Json(user)

\* the latest render shows the present language and mapping
Rendered ==
    /\ lang = seenLang
    /\ ~langFresh
    /\ dynamicTranslations = seenDynamicTranslations

\* C23: while the fetchUITranslations call for the selected language, which
\* has no built-in table, is pending, isTranslatingUI is true and the
\* labels on screen are the English defaults.
C23_PendingShowsEnglish ==
    (uiFetches = <<seenLang.name>> /\ Rendered)
        => /\ isTranslatingUI
           /\ t_p1(seenLang, seenDynamicTranslations) = "English"

\* C26: the labels on screen never come from a mapping fetched for a
\* language other than the selected one.
C26_LabelsOfSelectedLanguage ==
    (seenDynamicTranslations.fields # {} /\ Rendered)
        => seenDynamicTranslations.language = seenLang.name

\* C30: the list of available languages never holds two entries with the
\* same code, and an Add Language lookup that returns null leaves the list
\* and the selected language as they were.
C30_NoDuplicateCodes ==
    /\ [](\A i, j \in 1..Len(availableLanguages) :
             i # j => Code(availableLanguages[i]) # Code(availableLanguages[j]))
    /\ [][lookupSettled(Null)
             => UNCHANGED <<availableLanguages, lang, langFresh>>]_vars

\* two overlapping lookups have settled: one added a language, the other
\* replaced the entry of a code the list already held
C30_Witness ==
    /\ lookups = 0
    /\ Len(availableLanguages) = Len(SUPPORTED_LANGUAGES) + 1
    /\ \E i, j \in 1..Len(availableLanguages) :
          /\ availableLanguages[i] = Language("fr-FR", "Francais")
          /\ availableLanguages[j] = Language("is-IS", "Icelandic")

\* C27: isNearbyLoading is true whenever a getNearbyPlaces call started by
\* performSearch is outstanding.
C27_LoadingWhileOutstanding ==
    Len(searches) > 0 => isNearbyLoading

\* C28: when a search settles, its result is stored under the filter its
\* performSearch held when it started, and the cached results of the
\* other categories stay as they were.
C28_StoredUnderOwnCategory ==
    [][searchSettled
         => \E i \in 1..Len(searches) :
               /\ searches' = RemoveAt(searches, i)
               /\ \A f \in DOMAIN nearbyResults :
                     f # searches[i].filter
                        => nearbyResults'[f] = nearbyResults[f]
               /\ nearbyResults' # nearbyResults
                     => nearbyResults'[searches[i].filter].t = "places"]_vars

\* the hospital search has stored its places while the filter is on
\* police, whose own search is still outstanding
C28_Witness ==
    /\ activeFilter = "police"
    /\ HasLinks(nearbyResults["hospital"])
    /\ ~HasLinks(nearbyResults["police"])
    /\ nearbyResults["police"].text.s = <<>>
    /\ searches = <<[filter |-> "police", by |-> "effect"]>>

\* C29: the live-scan interval runs exactly when, as of the latest render,
\* live scanning is on and the mode is 'sign', and it is then the only
\* interval; when it does not run no interval is left.
C29_OneTimerWhileScanning ==
    /\ liveScanTimer = (seenIsLiveScanning /\ seenCurrentMode = "sign")
    /\ intervals = IF liveScanTimer THEN 1 ELSE 0

\* the interval runs, created by a render in which no capture was in
\* progress, while a capture is in progress
C29_Witness ==
    /\ liveScanTimer
    /\ intervals = 1
    /\ captures > 0
    /\ ~timerIsSignLoading
    /\ isSignLoading

\* C24: after a snap capture the busy flag isSignLoading eventually returns
\* to false, whatever the interpretSignLanguage call settled with.
C24_BusyFlagReturns ==
    isSignLoading ~> ~isSignLoading

====
